---------------------------- MODULE Spec2Model ----------------------------
(***************************************************************************)
(* A model of src/Scraper.py: the address similarity score (similar), the  *)
(* candidate ranker (find_best_match) and the per-address loop of run.     *)
(*                                                                         *)
(* A string is the sequence of its pieces between single spaces: a word,   *)
(* or the empty piece "" where two spaces meet.  str.split() drops the     *)
(* empty pieces and str.lower() is Lower, word by word.  The words come    *)
(* from small alphabets on which the regular expressions of the source act *)
(* on whole words.  A score is the exact ratio num/den: the quotients of   *)
(* the source are quotients of small integers, for which float comparison  *)
(* and ratio comparison agree.                                             *)
(***************************************************************************)
EXTENDS Integers, Sequences, FiniteSets, TLC

VARIABLES pc, search_str, target_str, score, prev_score,
          addresses_df, idx, address, page, rows, best_match_index,
          account_number, results, log

vars == <<pc, search_str, target_str, score, prev_score,
          addresses_df, idx, address, page, rows, best_match_index,
          account_number, results, log>>

similarVars == <<search_str, target_str, score, prev_score>>
runVars == <<addresses_df, idx, address, page, rows, best_match_index,
             account_number, results, log>>

-----------------------------------------------------------------------------
(* Bounds of the model. *)

MaxSearchLen == 2
MaxTargetLen == 3
MaxBodyLen == 4
MaxRows == 3
MaxAddresses == 3

-----------------------------------------------------------------------------
(* Generic helpers. *)

Range(s) == {s[k] : k \in 1..Len(s)}

Min(a, b) == IF a < b THEN a ELSE b

SeqsUpTo(S, n) == UNION {[1..k -> S] : k \in 0..n}

Insert(s, p, w) == SubSeq(s, 1, p) \o <<w>> \o SubSeq(s, p + 1, Len(s))

None == <<>>

Some(x) == <<x>>

-----------------------------------------------------------------------------
(* Scores: the float len(a) / len(b) kept as the exact ratio. *)

Ratio(n, d) == [num |-> n, den |-> d]

Zero == Ratio(0, 1)

Less(a, b) == a.num * b.den < b.num * a.den

SameScore(a, b) == a.num * b.den = b.num * a.den

MaxScore(a, b) == IF Less(a, b) THEN b ELSE a

RetryThreshold == Ratio(4, 5)

MatchThreshold == Ratio(3, 5)

-----------------------------------------------------------------------------
(* similar: normalisation. *)

DigitWords == {"5", "12", "34", "100"}

IsDigit(w) == w \in DigitWords

Lower(w) ==
    CASE w = "FM" -> "fm"
      [] w = "Oak" -> "oak"
      [] w = "Rd" -> "rd"
      [] OTHER -> w

IsWord(w) == w # ""

LowerSplit(s) == SelectSeq([k \in 1..Len(s) |-> Lower(s[k])], IsWord)

RECURSIVE SubFmRd(_)
SubFmRd(s) ==
    IF s = <<>> THEN <<>>
    ELSE IF Len(s) >= 3 /\ s[1] = "fm" /\ IsDigit(s[2]) /\ s[3] \in {"rd", "r"}
         THEN <<"farm", "to", "market", s[2]>> \o SubFmRd(SubSeq(s, 4, Len(s)))
         ELSE <<s[1]>> \o SubFmRd(Tail(s))

RECURSIVE SubFm(_)
SubFm(s) ==
    IF s = <<>> THEN <<>>
    ELSE IF Len(s) >= 2 /\ s[1] = "fm" /\ IsDigit(s[2])
         THEN <<"farm", "to", "market", s[2]>> \o SubFm(SubSeq(s, 3, Len(s)))
         ELSE <<s[1]>> \o SubFm(Tail(s))

NormalizeFm(s) == SubFm(SubFmRd(s))

RECURSIVE ExtractFrom(_, _)
ExtractFrom(words, j) ==
    IF j > Len(words) THEN <<>>
    ELSE IF j - 1 >= 2 /\ SubSeq(words, j - 2, j - 1) = <<"farm", "to", "market">>
         THEN ExtractFrom(words, j + 1)
         ELSE IF IsDigit(words[j])
              THEN <<words[j]>> \o ExtractFrom(words, j + 1)
              ELSE ExtractFrom(words, j + 1)

ExtractNumbers(s) == ExtractFrom(s, 1)

NumbersMatchAsSets(sn, tn) == Range(sn) \cap Range(tn) # {}

NumbersMatch(sn, tn) ==
    \E k \in 1..Min(Len(sn), Len(tn)) : sn[k] = tn[k]

-----------------------------------------------------------------------------
(* similar: word overlap and the abbreviation retry. *)

WordScore(sw, tw) ==
    Ratio(Cardinality(Range(sw) \cap Range(tw)), Cardinality(Range(sw)))

CommonReplacements ==
    << <<"rd", "road">>, <<"st", "street">>, <<"ln", "lane">>,
       <<"dr", "drive">>, <<"blvd", "boulevard">>, <<"hwy", "highway">> >>

SubWord(s, abbr, full) ==
    [k \in 1..Len(s) |-> IF s[k] = abbr THEN full ELSE s[k]]

RECURSIVE ApplyReplacements(_, _)
ApplyReplacements(s, n) ==
    IF n > Len(CommonReplacements) THEN s
    ELSE ApplyReplacements(
             SubWord(s, CommonReplacements[n][1], CommonReplacements[n][2]),
             n + 1)

RetryAlways(base) == TRUE

NeedsRetry(base) == Less(base, RetryThreshold)

Similar(s, t) ==
    LET search == NormalizeFm(LowerSplit(s))
        target == NormalizeFm(LowerSplit(t))
        search_numbers == ExtractNumbers(search)
        target_numbers == ExtractNumbers(target)
        base == WordScore(search, target)
        norm_score == WordScore(ApplyReplacements(search, 1),
                                ApplyReplacements(target, 1))
    IN  IF /\ search_numbers # <<>>
           /\ target_numbers # <<>>
           /\ ~NumbersMatch(search_numbers, target_numbers)
        THEN Zero
        ELSE IF Range(search) = {} THEN Zero
        ELSE IF NeedsRetry(base) THEN MaxScore(base, norm_score)
        ELSE base

-----------------------------------------------------------------------------
(* The scorer on its own: inputs drawn at Init, similar applied once. *)

SimilarWords == {"12", "34", "FM", "rd", "oak", ""}

RunIdle ==
    /\ addresses_df = <<>>
    /\ idx = 0
    /\ address = <<>>
    /\ page = <<>>
    /\ rows = <<>>
    /\ best_match_index = None
    /\ account_number = None
    /\ results = <<>>
    /\ log = <<>>

InitSimilar ==
    /\ pc = "input"
    /\ search_str \in SeqsUpTo(SimilarWords, MaxSearchLen)
    /\ target_str \in SeqsUpTo(SimilarWords, MaxTargetLen)
    /\ score = None
    /\ prev_score = None
    /\ RunIdle

CallSimilar ==
    /\ pc = "input"
    /\ score' = Similar(search_str, target_str)
    /\ pc' = "scored"
    /\ UNCHANGED <<search_str, target_str, prev_score>>
    /\ UNCHANGED runVars

SpecSimilar == InitSimilar /\ [][CallSimilar]_vars


(* C6: when the query and the candidate each contain a standalone all-digit
   word and at no position do their extracted number lists agree, similar
   returns exactly 0, whatever the word overlap; the same numbers in another
   order are vetoed too. *)
HasDigitWord(s) == \E k \in 1..Len(s) : IsDigit(Lower(s[k]))

NoPositionAgrees(s, t) ==
    LET sn == ExtractNumbers(NormalizeFm(LowerSplit(s)))
        tn == ExtractNumbers(NormalizeFm(LowerSplit(t)))
    IN  \A k \in 1..Len(sn) : k <= Len(tn) => sn[k] # tn[k]

FollowsFarmToMarket(w, j) ==
    j >= 4 /\ SubSeq(w, j - 3, j - 1) = <<"farm", "to", "market">>

OnlyFmNumbers(w) ==
    \A j \in 1..Len(w) : IsDigit(w[j]) => FollowsFarmToMarket(w, j)

C7_FmRoadNumberExcluded ==
    pc = "scored" =>
        LET search == NormalizeFm(LowerSplit(search_str))
            target == NormalizeFm(LowerSplit(target_str))
        IN  /\ OnlyFmNumbers(search) => ExtractNumbers(search) = <<>>
            /\ (/\ search # <<>>
                /\ OnlyFmNumbers(search)
                /\ Range(search) \subseteq Range(target))
               => score.num > 0

-----------------------------------------------------------------------------
(* The scorer applied to a candidate and again to the candidate with one
   more word in it. *)

AddExtraToken ==
    /\ pc = "scored"
    /\ \E w \in SimilarWords, p \in 0..Len(target_str) :
           target_str' = Insert(target_str, p, w)
    /\ prev_score' = score
    /\ score' = Similar(search_str, target_str')
    /\ pc' = "rescored"
    /\ UNCHANGED search_str
    /\ UNCHANGED runVars

SpecExtra == InitSimilar /\ [][CallSimilar \/ AddExtraToken]_vars

(* C9: a word added to the candidate, at any position, never lowers the
   score. *)
C9_ExtraTokenNoPenalty ==
    pc = "rescored" => ~Less(score, prev_score)

-----------------------------------------------------------------------------
(* The scorer on a query and the same query with one road-type word written
   the other way. *)

BodyWords == {"100", "fm", "Oak", "hill"}

InitAbbrev ==
    /\ pc = "input"
    /\ \E body \in SeqsUpTo(BodyWords, MaxBodyLen) :
       \E p \in 0..Len(body) :
       \E n \in 1..Len(CommonReplacements) :
       \E d \in {1, 2} :
           /\ search_str = Insert(body, p, CommonReplacements[n][d])
           /\ target_str = Insert(body, p, CommonReplacements[n][3 - d])
    /\ score = None
    /\ prev_score = None
    /\ RunIdle

SpecAbbrev == InitAbbrev /\ [][CallSimilar]_vars

BaseOf(s, t) == WordScore(NormalizeFm(LowerSplit(s)), NormalizeFm(LowerSplit(t)))

(* C8 as first stated: a candidate that differs from the query by one road-type
   word written abbreviated or in full scores 1.0, for queries of any number
   of words. *)
C8_AbbreviationAlwaysOne ==
    pc = "scored" => score.num = score.den

(* C8: such a candidate scores 1.0 whenever the base ratio is below 0.8; at
   a base ratio of 0.8 or more the retry is skipped and the score is the base
   ratio. *)
C8_AbbreviationBelowRetry ==
    pc = "scored" =>
        IF Less(BaseOf(search_str, target_str), Ratio(4, 5))
        THEN score.num = score.den
        ELSE SameScore(score, BaseOf(search_str, target_str))

C8_Witness ==
    /\ pc = "scored"
    /\ search_str = <<"100", "Oak", "rd">>
    /\ target_str = <<"100", "Oak", "road">>
    /\ score.num = score.den

-----------------------------------------------------------------------------
(* find_best_match.  A row of the results listing is what the calls on it
   return: whether 'td div' and 'td div b' are found, the lines of the
   address cell's text, the text of the account cell, and whether one of the
   calls raises. *)

AccountDigits == 13

Account(id, digits, length) == [id |-> id, isdigit |-> digits, len |-> length]

Row(addr, acct, parts, account, raises) ==
    [address_div |-> addr, account_div |-> acct, text_parts |-> parts,
     account |-> account, raises |-> raises]

IsBetterOrEqual(similarity, best_ratio) == ~Less(similarity, best_ratio)

IsBetter(similarity, best_ratio) == Less(best_ratio, similarity)

AcceptAtThreshold(best_ratio, best_index) ==
    ~Less(best_ratio, MatchThreshold) /\ best_index >= 0

AcceptBest(best_ratio, best_index) ==
    Less(MatchThreshold, best_ratio) /\ best_index >= 0

RECURSIVE ScanRows(_, _, _, _, _)
ScanRows(search_address, rws, i, best_ratio, best_index) ==
    IF i >= Len(rws)
    THEN IF AcceptBest(best_ratio, best_index) THEN Some(best_index) ELSE None
    ELSE LET row == rws[i + 1]
             skip == ScanRows(search_address, rws, i + 1, best_ratio, best_index)
         IN  IF row.raises THEN skip
             ELSE IF ~row.address_div \/ ~row.account_div THEN skip
             ELSE IF Len(row.text_parts) < 2 THEN skip
             ELSE IF ~row.account.isdigit \/ row.account.len # AccountDigits
                  THEN skip
             ELSE LET similarity == Similar(search_address, row.text_parts[2])
                  IN  IF IsBetter(similarity, best_ratio)
                      THEN ScanRows(search_address, rws, i + 1, similarity, i)
                      ELSE skip

FindBestMatch(search_address, rws) == ScanRows(search_address, rws, 0, Zero, -1)

-----------------------------------------------------------------------------
(* The ranker on its own: a query and a listing drawn at Init. *)

RankerQueries == {<<"12", "oak", "rd">>, <<"12", "n", "oak", "hill", "rd">>}

RankerAddresses ==
    {<<"12", "oak", "rd">>, <<"12", "", "Oak", "road">>, <<"12", "oak">>,
     <<"34", "oak", "rd">>}

OwnerLine == <<"doe", "john">>

GoodAccount(id) == Account(id, TRUE, AccountDigits)

RankerRows ==
    {Row(TRUE, TRUE, <<OwnerLine, a>>, GoodAccount("A"), FALSE) :
         a \in RankerAddresses}
    \cup {Row(FALSE, FALSE, <<>>, GoodAccount("A"), FALSE),
          Row(TRUE, FALSE, <<OwnerLine, <<"12", "oak", "rd">>>>,
              GoodAccount("A"), FALSE),
          Row(TRUE, TRUE, << <<"12", "oak", "rd">> >>, GoodAccount("A"), FALSE),
          Row(TRUE, TRUE, <<OwnerLine, <<"12", "oak", "rd">>>>,
              Account("A", TRUE, AccountDigits - 1), FALSE),
          Row(TRUE, TRUE, <<OwnerLine, <<"12", "oak", "rd">>>>,
              Account("A", FALSE, AccountDigits), FALSE),
          Row(TRUE, TRUE, <<OwnerLine, <<"12", "oak", "rd">>>>,
              GoodAccount("A"), TRUE)}

InitRanker ==
    /\ pc = "ranking"
    /\ address \in RankerQueries
    /\ page \in SeqsUpTo(RankerRows, MaxRows)
    /\ rows = <<>>
    /\ best_match_index = None
    /\ search_str = <<>>
    /\ target_str = <<>>
    /\ score = None
    /\ prev_score = None
    /\ addresses_df = <<>>
    /\ idx = 0
    /\ account_number = None
    /\ results = <<>>
    /\ log = <<>>

CallFindBestMatch ==
    /\ pc = "ranking"
    /\ rows' = page
    /\ best_match_index' = FindBestMatch(address, page)
    /\ pc' = "ranked"
    /\ UNCHANGED <<addresses_df, idx, address, page, account_number, results, log>>
    /\ UNCHANGED similarVars

SpecRanker == InitRanker /\ [][CallFindBestMatch]_vars

ValidRows(rws) ==
    {k \in 1..Len(rws) :
        /\ ~rws[k].raises
        /\ rws[k].address_div
        /\ rws[k].account_div
        /\ Len(rws[k].text_parts) >= 2
        /\ rws[k].account.isdigit
        /\ rws[k].account.len = 13}

Best == best_match_index[1] + 1

ScoreOf(q, rws, k) == Similar(q, rws[k].text_parts[2])

(* C4: find_best_match returns a row only if it is structurally valid, its
   score is the maximum over the valid rows and that maximum is strictly
   above 0.6; when every valid row scores 0.6 or less, or none is valid, it
   returns None. *)
C4_BestAboveThreshold ==
    pc = "ranked" =>
        /\ best_match_index # None =>
              /\ Best \in ValidRows(rows)
              /\ \A k \in ValidRows(rows) :
                     ~Less(ScoreOf(address, rows, Best),
                           ScoreOf(address, rows, k))
              /\ Less(Ratio(3, 5), ScoreOf(address, rows, Best))
        /\ (\A k \in ValidRows(rows) :
               ~Less(Ratio(3, 5), ScoreOf(address, rows, k)))
           => best_match_index = None

C4_Witness ==
    /\ pc = "ranked"
    /\ best_match_index = None
    /\ \E k \in ValidRows(rows) :
           SameScore(ScoreOf(address, rows, k), Ratio(3, 5))

(* C5: among valid rows sharing the maximal score, find_best_match returns
   the index of the earliest, whatever invalid or raising rows lie between
   them. *)
C5_EarliestOfTies ==
    (pc = "ranked" /\ best_match_index # None) =>
        \A k \in ValidRows(rows) :
            SameScore(ScoreOf(address, rows, k),
                      ScoreOf(address, rows, Best))
            => k >= Best

C5_Witness ==
    /\ pc = "ranked"
    /\ best_match_index = Some(0)
    /\ Len(rows) = 3
    /\ rows[2].raises
    /\ 3 \in ValidRows(rows)
    /\ SameScore(ScoreOf(address, rows, 3), ScoreOf(address, rows, 1))

-----------------------------------------------------------------------------
(* run: the loop over addresses_df.  page is the live results listing, rows
   the list find_best_match scored, log the lines printed so far. *)

RunQueries == {<<"12", "oak", "rd">>}

RowA == Row(TRUE, TRUE, <<OwnerLine, <<"12", "oak", "rd">>>>, GoodAccount("A"), FALSE)

RowB == Row(TRUE, TRUE, <<OwnerLine, <<"12", "elm">>>>, GoodAccount("B"), FALSE)

RowC == Row(TRUE, FALSE, <<OwnerLine, <<"12", "oak", "rd">>>>, GoodAccount("C"), FALSE)

Listings == {<<>>, <<RowA>>, <<RowB>>, <<RowA, RowB>>, <<RowB, RowA>>, <<RowC>>}

NotAvailable == "N/A"

Init ==
    /\ pc = "loop"
    /\ \E n \in 1..MaxAddresses :
       \E qs \in [1..n -> RunQueries] :
           addresses_df = [k \in 1..n |-> [Key |-> k, SearchAddress |-> qs[k]]]
    /\ idx = 0
    /\ address = <<>>
    /\ page = <<>>
    /\ rows = <<>>
    /\ best_match_index = None
    /\ account_number = None
    /\ results = <<>>
    /\ log = <<>>
    /\ search_str = <<>>
    /\ target_str = <<>>
    /\ score = None
    /\ prev_score = None

ExceptReraise == "raised"

ExceptContinue == "loop"

(* extract_info: the dict it returns has the key 'Name' unless a selector
   raised before line 152 completed. *)
Info(acct, addr, key, named) ==
    [AccountNumber |-> acct, SearchKeyword |-> addr, RealnexKey |-> key,
     named |-> named]

(* Lines 214-231 and 256-262: the next address is searched and ranked. *)
Search ==
    /\ pc = "loop"
    /\ idx < Len(addresses_df)
    /\ idx' = idx + 1
    /\ address' = addresses_df[idx + 1].SearchAddress
    /\ LET key == addresses_df[idx + 1].Key
           addr == addresses_df[idx + 1].SearchAddress
           started == Append(log, <<"processing", key>>)
       IN  \/ /\ pc' = ExceptContinue
              /\ log' = Append(started, <<"error", key, "goto">>)
              /\ UNCHANGED <<page, rows, best_match_index, results>>
           \/ /\ page' = <<>>
              /\ pc' = ExceptContinue
              /\ log' = Append(started, <<"error", key, "timeout">>)
              /\ UNCHANGED <<rows, best_match_index, results>>
           \/ \E listing \in Listings \ {<<>>} :
                  /\ page' = listing
                  /\ rows' = listing
                  /\ best_match_index' = FindBestMatch(addr, listing)
                  /\ IF best_match_index' = None
                     THEN /\ pc' = "loop"
                          /\ log' = Append(started, <<"nomatch", key>>)
                          /\ UNCHANGED results
                     ELSE /\ pc' = "matched"
                          /\ log' = started
                          /\ UNCHANGED results
    /\ UNCHANGED <<addresses_df, account_number>>
    /\ UNCHANGED similarVars

(* The live listing changes between the two row queries. *)
ListingChanges ==
    /\ pc = "matched"
    /\ page = rows
    /\ page' \in Listings \ {page}
    /\ UNCHANGED <<pc, addresses_df, idx, address, rows, best_match_index,
                   account_number, results, log>>
    /\ UNCHANGED similarVars

(* Lines 233-255: the rows are queried again, the row at the returned index
   is clicked, the record extracted and the row appended.  The error after
   the account number is printed is the click, the wait for the load state,
   page.content or the write of the temp file raising.  (The f-string of
   line 254 reuses its own quote, which parses from Python 3.12 on.) *)
Open ==
    /\ pc = "matched"
    /\ LET key == addresses_df[idx].Key
           i == best_match_index[1]
           best_row == page[i + 1]
           account == IF best_row.account_div THEN best_row.account.id
                      ELSE NotAvailable
           found == Append(log, <<"found", key, account>>)
       IN  \/ /\ i >= Len(page)
              /\ pc' = ExceptContinue
              /\ log' = Append(log, <<"error", key, "index">>)
              /\ UNCHANGED <<account_number, results>>
           \/ /\ i < Len(page)
              /\ account_number' = account
              /\ \/ /\ log' = Append(found, <<"error", key, "open">>)
                    /\ pc' = ExceptContinue
                    /\ UNCHANGED results
                 \/ /\ \E named \in BOOLEAN :
                           results' = Append(results,
                                             Info(account, address, key, named))
                    /\ log' = found
                    /\ pc' = "loop"
    /\ UNCHANGED <<addresses_df, idx, address, page, rows, best_match_index>>
    /\ UNCHANGED similarVars

(* Lines 264-281: the collected rows are renamed, reordered and saved.  The
   'Mailing Address' column deleted at line 270 exists only if some row has
   the key 'Name'. *)
Save ==
    /\ pc = "loop"
    /\ idx = Len(addresses_df)
    /\ IF results = <<>>
       THEN pc' = "done"
       ELSE IF \A k \in 1..Len(results) : ~results[k].named
            THEN pc' = "raised"
            ELSE pc' \in {"done", "raised"}
    /\ UNCHANGED runVars
    /\ UNCHANGED similarVars

Next == Search \/ ListingChanges \/ Open \/ Save

Spec == Init /\ [][Next]_vars

Terminated == pc \in {"done", "raised"}

Logged(e) == \E n \in 1..Len(log) : log[n] = e

Found(k) == \E n \in 1..Len(log) : log[n][1] = "found" /\ log[n][2] = k

HasRow(k) == \E m \in 1..Len(results) : results[m].RealnexKey = k

(* C1: whatever fails while address k is processed, run goes on to process
   every address after k; the batch is never cut short by one address. *)
C1_BatchNeverAborts ==
    Terminated =>
        \A k \in 1..Len(addresses_df) : Logged(<<"processing", k>>)

C1_Witness ==
    /\ pc = "done"
    /\ Len(addresses_df) = 3
    /\ Logged(<<"error", 1, "timeout">>)
    /\ Logged(<<"error", 2, "open">>)
    /\ Logged(<<"processing", 3>>)
    /\ HasRow(3)

(* C2: after run finishes a batch of N addresses the result set has exactly
   one row per input address, the addresses without candidates, without a
   confident match or with an error included. *)
C2_OneRowPerAddress ==
    Terminated => Len(results) = Len(addresses_df)

(* C3: once a match was found for an address, a row for it is in the final
   results, whatever fails afterwards. *)
C3_NoRowDroppedAfterMatch ==
    Terminated => \A k \in 1..Len(addresses_df) : Found(k) => HasRow(k)

(* C10: the row whose account number is recorded and which is clicked is the
   row find_best_match scored highest, even when the listing changes between
   the two row queries. *)
C10_ClickedRowIsBestScored ==
    \A n \in 1..Len(log) :
        (log[n][1] = "found" /\ log[n][2] = idx)
        => log[n][3] = rows[Best].account.id

=============================================================================
